---- MODULE Spec2Model ----
(***************************************************************************)
(* Koopman actor-critic policy learning: the discrete Koopman policy       *)
(* (DiscreteKoopmanPolicyIterationPolicy and its generalized twin          *)
(* DiscreteKoopmanActorCriticPolicy), its critic refit, its training loop  *)
(* and its two checkpoint files.                                           *)
(*                                                                         *)
(* Floating point numbers are modelled as exact rationals plus one         *)
(* non-finite value (NaN), which every arithmetic operation propagates.    *)
(***************************************************************************)
EXTENDS Integers, Sequences, FiniteSets, TLC

(***************************************************************************)
(* Bounds of the model.                                                    *)
(***************************************************************************)
MaxRuns == 2
MaxEpisodes == 2
MaxSteps == 2
MaxChkpt == 3
MaxBatch == 3

(***************************************************************************)
(* Numbers: [nan, n, d] is n/d in lowest terms with d > 0, or NaN.         *)
(***************************************************************************)
Abs(i) == IF i < 0 THEN -i ELSE i

RECURSIVE Gcd(_, _)
Gcd(a, b) == IF b = 0 THEN a ELSE Gcd(b, a % b)

NaN == [nan |-> TRUE, n |-> 0, d |-> 1]

Rat(n, d) ==
    LET g == Gcd(Abs(n), Abs(d))
        s == IF d < 0 THEN -1 ELSE 1
    IN  [nan |-> FALSE, n |-> (s * n) \div g, d |-> (s * d) \div g]

Int2Num(i) == [nan |-> FALSE, n |-> i, d |-> 1]

Zero == Int2Num(0)

One == Int2Num(1)

Add(a, b) == IF a.nan \/ b.nan THEN NaN ELSE Rat(a.n * b.d + b.n * a.d, a.d * b.d)

Neg(a) == IF a.nan THEN NaN ELSE [nan |-> FALSE, n |-> -a.n, d |-> a.d]

Sub(a, b) == Add(a, Neg(b))

Mul(a, b) == IF a.nan \/ b.nan THEN NaN ELSE Rat(a.n * b.n, a.d * b.d)

\* a / b for a finite non-zero b
Div(a, b) == IF a.nan \/ b.nan THEN NaN ELSE Rat(a.n * b.d, a.d * b.n)

IsZero(a) == ~a.nan /\ a.n = 0

RECURSIVE Pow(_, _)
Pow(a, k) == IF k = 0 THEN One ELSE Mul(a, Pow(a, k - 1))

RECURSIVE SumSeq(_)
SumSeq(s) == IF s = <<>> THEN Zero ELSE Add(Head(s), SumSeq(Tail(s)))

Dot(u, v) == SumSeq([i \in 1..Len(u) |-> Mul(u[i], v[i])])

AnyNaN(s) == \E i \in 1..Len(s) : s[i].nan

(***************************************************************************)
(* Constructor arguments that are fixed in this model.                     *)
(***************************************************************************)
\* gamma = GammaNum / GammaDen, dt = Dt time units
GammaNum == 1
GammaDen == 2
Dt == 2

gamma == Rat(GammaNum, GammaDen)

\* discount_factor = gamma ** dt
discount_factor == Pow(gamma, Dt)

\* probabilities are multiples of 1 / PDen
PDen == 3

\* the states the environment and the snapshot data range over
StateVals == {0, 1}

StateNaN == [nan |-> TRUE, v |-> 0]

St(v) == [nan |-> FALSE, v |-> v]

States == {St(v) : v \in StateVals}

(***************************************************************************)
(* The Koopman tensor model (final/tensor.py, KoopmanTensor): monomial     *)
(* dictionaries phi and psi of the given degree, the snapshot states X,    *)
(* their features Phi_X, and the operator tensor, K(u) = K_tensor . psi(u) *)
(***************************************************************************)
Monomials(degree, x) ==
    IF degree = 0 THEN <<One>>
    ELSE <<One, IF x.nan THEN NaN ELSE Int2Num(x.v)>>

KoopmanTensor(degree, X, K_tensor) ==
    [ x_dim |-> 1,
      degree |-> degree,
      phi_dim |-> degree + 1,
      phi_column_dim |-> <<degree + 1, 1>>,
      X |-> X,
      Phi_X |-> [i \in 1..Len(X) |-> Monomials(degree, St(X[i]))],
      K_tensor |-> K_tensor ]

\* one state, phi = 1, K(u) = 1
TrivialModel == KoopmanTensor(0, <<0, 0>>, << << <<1>> >> >>)

\* x' = x + u with phi(x) = (1, x): K(u) = [[1, 0], [u, 1]]
LinearModel ==
    KoopmanTensor(1, <<0, 1>>,
                  << << <<1, 0>>, <<0, 0>> >>,
                     << <<0, 1>>, <<1, 0>> >> >>)

\* no model: the placeholder while no policy object exists
NoModel == KoopmanTensor(0, <<>>, <<>>)

phi(model, x) == Monomials(model.degree, x)

psi(model, u) == Monomials(model.degree, St(u))

\* K_(all_actions): one phi_dim x phi_dim operator per action of the catalog
K_(model, all_actions) ==
    [a \in 1..Len(all_actions) |->
        [i \in 1..model.phi_dim |->
            [j \in 1..model.phi_dim |->
                Dot([k \in 1..Len(model.K_tensor[i][j]) |->
                        Int2Num(model.K_tensor[i][j][k])],
                    psi(model, all_actions[a]))]]]

MatVec(M, v) == [i \in 1..Len(M) |-> Dot(M[i], v)]

\* the problems a policy is constructed for: a model and an action catalog
Setups ==
    { [model |-> TrivialModel, all_actions |-> <<1>>, states |-> {St(0)}],
      [model |-> LinearModel, all_actions |-> <<-1, 1>>, states |-> States] }

\* cost(x, u) = x'Qx + u'Ru with Q = R = 1
cost(x, u) == IF x.nan THEN NaN ELSE Int2Num(x.v * x.v + u * u)

(***************************************************************************)
(* The policy network: a softmax over the catalog.  Its parameters are     *)
(* modelled by the distribution they produce at each state, or NaN.        *)
(***************************************************************************)
PolicyTables(n_out) ==
    IF n_out = 1 THEN {[x \in StateVals |-> <<PDen>>]}
    ELSE {[x \in StateVals |-> <<k[x], PDen - k[x]>>] :
            k \in [StateVals -> 1..(PDen - 1)]}

Policy(n_out, table) == [nan |-> FALSE, n_out |-> n_out, table |-> table]

NaNPolicy(n_out) ==
    [nan |-> TRUE, n_out |-> n_out, table |-> [x \in StateVals |-> <<>>]]

NoPolicy == NaNPolicy(0)

\* init_weights zeroes every Linear weight: the output is softmax(bias of the
\* last layer), the same distribution at every state
FreshPolicies(n_out) ==
    {Policy(n_out, t) : t \in {t \in PolicyTables(n_out) :
                                  \A x, y \in StateVals : t[x] = t[y]}}

\* policy_model(x): the probabilities of the n_out actions at state x
policy_forward(pm, x) ==
    IF pm.nan \/ x.nan THEN [u \in 1..pm.n_out |-> NaN]
    ELSE [u \in 1..pm.n_out |-> Rat(pm.table[x.v][u], PDen)]

(***************************************************************************)
(* The value weights.                                                      *)
(***************************************************************************)
Weights(src, shape, w) == [src |-> src, shape |-> shape, w |-> w]

NoWeights == Weights("none", <<>>, <<>>)

\* zeroed weights kept as a flat vector of phi_dim entries
ZeroWeights_Flat(model) ==
    Weights("zeros", <<model.phi_dim>>, [i \in 1..model.phi_dim |-> Zero])

\* torch.zeros(self.dynamics_model.phi_column_dim)
ZeroWeights(model) ==
    Weights("zeros", model.phi_column_dim, [i \in 1..model.phi_dim |-> Zero])

\* w^T phi(x)
value(weights, phi_x) == Dot(weights.w, phi_x)

(***************************************************************************)
(* torch.linalg.lstsq(A, b).solution for at most two unknowns: the least   *)
(* squares solution, the minimum norm one when A is rank deficient.        *)
(***************************************************************************)
lstsq(A, b) ==
    LET p == Len(A[1])
        col(k) == [j \in 1..Len(A) |-> A[j][k]]
    IN  IF (\E j \in 1..Len(A) : AnyNaN(A[j])) \/ AnyNaN(b)
        THEN [k \in 1..p |-> NaN]
        ELSE IF p = 1
        THEN LET G == Dot(col(1), col(1))
                 h == Dot(col(1), b)
             IN  IF IsZero(G) THEN <<Zero>> ELSE <<Div(h, G)>>
        ELSE LET G11 == Dot(col(1), col(1))
                 G12 == Dot(col(1), col(2))
                 G22 == Dot(col(2), col(2))
                 h1 == Dot(col(1), b)
                 h2 == Dot(col(2), b)
                 det == Sub(Mul(G11, G22), Mul(G12, G12))
                 tr == Add(G11, G22)
             IN  IF ~IsZero(det)
                 THEN << Div(Sub(Mul(G22, h1), Mul(G12, h2)), det),
                         Div(Sub(Mul(G11, h2), Mul(G12, h1)), det) >>
                 ELSE IF ~IsZero(tr)
                 THEN <<Div(h1, tr), Div(h2, tr)>>
                 ELSE <<Zero, Zero>>

(***************************************************************************)
(* The critic refit, update_value_function_weights, as a function of what  *)
(* it reads: the model, the policy, the catalog and the drawn batch.       *)
(***************************************************************************)
\* a draw with replacement: `size` column indices, repeats allowed
Batches_WithReplacement(N, size) == [1..size -> 1..N]

\* a draw that takes the whole population when asked for more
Batches_Clamped(N, size) ==
    LET k == IF size > N THEN N ELSE size
    IN  {b \in [1..k -> 1..N] : \A i, j \in 1..k : i # j => b[i] # b[j]}

\* np.random.choice(N, size, replace=False): `size` distinct column indices;
\* there is none, and the call raises ValueError, when size exceeds N
Batches(N, size) ==
    {b \in [1..size -> 1..N] : \A i, j \in 1..size : i # j => b[i] # b[j]}

\* x_batch = X[:, x_batch_indices]
x_batch(model, batch) == [j \in 1..Len(batch) |-> model.X[batch[j]]]

\* phi_x_batch = Phi_X[:, x_batch_indices]
phi_x_batch(model, batch) == [j \in 1..Len(batch) |-> model.Phi_X[batch[j]]]

\* pi_response[u][j]: the policy's probability of action u at batch state j
pi_response(pm, model, batch) ==
    [u \in 1..pm.n_out |->
        [j \in 1..Len(batch) |->
            policy_forward(pm, St(x_batch(model, batch)[j]))[u]]]

\* a sum of the propagated features over the catalog that leaves the policy's
\* probabilities out
expectation_term_1_Unweighted(pm, model, all_actions, batch) ==
    LET K_us == K_(model, all_actions)
    IN  [j \in 1..Len(batch) |->
            [q \in 1..model.phi_dim |->
                SumSeq([u \in 1..Len(all_actions) |->
                            MatVec(K_us[u], phi_x_batch(model, batch)[j])[q]])]]

\* expectation_term_1[j]: sum over the catalog of pi(u | x_j) K(u) phi(x_j)
expectation_term_1(pm, model, all_actions, batch) ==
    LET K_us == K_(model, all_actions)
        pi == pi_response(pm, model, batch)
        phi_x_prime(u, j) == MatVec(K_us[u], phi_x_batch(model, batch)[j])
    IN  [j \in 1..Len(batch) |->
            [q \in 1..model.phi_dim |->
                SumSeq([u \in 1..Len(all_actions) |->
                            Mul(phi_x_prime(u, j)[q], pi[u][j])])]]

\* expectation_term_2[j]: sum over the catalog of pi(u | x_j) * -cost(x_j, u)
expectation_term_2(pm, model, all_actions, batch) ==
    LET pi == pi_response(pm, model, batch)
    IN  [j \in 1..Len(batch) |->
            SumSeq([u \in 1..Len(all_actions) |->
                        Mul(Neg(cost(St(x_batch(model, batch)[j]), all_actions[u])),
                            pi[u][j])])]

\* a refit that regresses the features on the expected reward alone, without the
\* discounted next-step term
BellmanSolution_MonteCarlo(pm, model, all_actions, batch) ==
    lstsq(phi_x_batch(model, batch),
          expectation_term_2(pm, model, all_actions, batch))

\* the solution of (Phi_X - discount * E[Phi_X']) w = E[reward] on the batch
BellmanSolution(pm, model, all_actions, batch) ==
    LET e1 == expectation_term_1(pm, model, all_actions, batch)
        e2 == expectation_term_2(pm, model, all_actions, batch)
        A == [j \in 1..Len(batch) |->
                [q \in 1..model.phi_dim |->
                    Sub(phi_x_batch(model, batch)[j][q],
                        Mul(discount_factor, e1[j][q]))]]
    IN  lstsq(A, e2)

\* a refit that leaves freshly zeroed weights behind and drops the solution
RefitWeights_Zeroes(prior, pm, model, all_actions, batch) == ZeroWeights(model)

\* a refit that moves the stored weights half way to the solution
RefitWeights_Momentum(prior, pm, model, all_actions, batch) ==
    LET sol == BellmanSolution(pm, model, all_actions, batch)
    IN  Weights("lstsq", <<model.phi_dim, 1>>,
                [i \in 1..model.phi_dim |->
                    Mul(Rat(1, 2), Add(prior.w[i], sol[i]))])

\* what the refit assigns to self.value_function_weights: the solution, whatever
\* the weights were before (`prior`)
RefitWeights(prior, pm, model, all_actions, batch) ==
    Weights("lstsq", <<model.phi_dim, 1>>,
            BellmanSolution(pm, model, all_actions, batch))

(***************************************************************************)
(* State.                                                                  *)
(***************************************************************************)
VARIABLES
    pc,                      \* where the process is: none, ready, the places of train, done, raised
    error,                   \* the exception that ended the constructor or train
    runs,                    \* constructions so far
    files,                   \* policy.pt and the value weights file on disk
    variant,                 \* which of the two policy classes was constructed
    load_model,              \* the constructor's load_model
    dynamics_model,          \* self.dynamics_model
    all_actions,             \* self.all_actions
    env_states,              \* the states self.true_dynamics moves between
    state_minimums,          \* self.state_minimums
    w_hat_batch_size,        \* self.w_hat_batch_size
    policy_model,            \* self.policy_model (its parameters)
    policy_grad,             \* the .grad of the policy parameters
    optimizer_steps,         \* steps taken by self.policy_model_optimizer
    value_function_weights,  \* self.value_function_weights
    num_training_episodes,   \* train's arguments
    num_steps_per_episode,
    how_often_to_chkpt,
    episode_num,             \* train's locals
    step_num,
    state,
    V_xs_per_episode,
    V_x_primes_per_episode,
    rewards_per_episode,
    x_batch_indices          \* the batch drawn by the last refit

obj_vars == <<variant, load_model, dynamics_model, all_actions, env_states, state_minimums,
              w_hat_batch_size>>

learn_vars == <<policy_model, policy_grad, optimizer_steps, value_function_weights>>

arg_vars == <<num_training_episodes, num_steps_per_episode, how_often_to_chkpt>>

loop_vars == <<episode_num, step_num, state, V_xs_per_episode,
               V_x_primes_per_episode, rewards_per_episode>>

vars == <<pc, error, runs, files, obj_vars, learn_vars, arg_vars, loop_vars,
          x_batch_indices>>

(***************************************************************************)
(* State of the soft-actor-critic script: the Q target of one update.      *)
(***************************************************************************)
VARIABLES
    q_pc,                    \* idle, args (arguments parsed), target (a Q target computed)
    args_gamma,              \* args.gamma
    env_dt,                  \* envs.envs[0].dt, the environment's timestep
    args_koopman,            \* args.koopman
    dones,                   \* data.dones of the sampled transition
    vf_next,                 \* the target V network's value of the next observation
    q_target_values          \* the Q target the losses regress on

q_vars == <<q_pc, args_gamma, env_dt, args_koopman, dones, vf_next, q_target_values>>

(***************************************************************************)
(* State of one call of get_action on a constructed policy.                *)
(***************************************************************************)
VARIABLES
    ga_pc,                   \* idle, returned, raised
    ga_error,                \* the exception get_action raised
    ga_x,                    \* the argument x
    num_samples,             \* the argument num_samples
    action_probabilities,    \* the policy's output at x
    action_indices,          \* the indices np.random.choice drew
    actions,                 \* the returned actions
    log_probabilities        \* the returned log-probabilities

ga_vars == <<ga_pc, ga_error, ga_x, num_samples, action_probabilities, action_indices,
             actions, log_probabilities>>

(***************************************************************************)
(* State of a continuous-action policy and of one sample drawn from it.    *)
(***************************************************************************)
VARIABLES
    ca_pc,                   \* idle, made (policy constructed), sampled
    ca_impl,                 \* Actor, PolicyNetwork or ActorNetwork
    action_minimums,         \* the lower bound of each action component
    action_maximums,         \* the upper bound of each action component
    tanh_u,                  \* tanh of the pre-squash sample, per component
    ca_action,               \* the returned action, per component
    log_arg                  \* the argument of the log subtracted from log_prob

ca_vars == <<ca_pc, ca_impl, action_minimums, action_maximums, tanh_u, ca_action,
             log_arg>>

(***************************************************************************)
(* State of a Memory object.                                               *)
(***************************************************************************)
VARIABLES
    mem_pc,                  \* idle, made (constructed), raised
    capacity,                \* self.capacity
    data,                    \* self.data
    pointer,                 \* self.pointer
    stored                   \* history: the events stored since the last forget

mem_vars == <<mem_pc, capacity, data, pointer, stored>>

(***************************************************************************)
(* State of the main loop of the soft-actor-critic script.                 *)
(***************************************************************************)
VARIABLES
    tl_pc,                   \* idle, loop (at the head of the for loop), raised, closed
    tl_error,                \* the exception that ended the script
    total_timesteps,         \* args.total_timesteps
    learning_starts,         \* args.learning_starts
    policy_frequency,        \* args.policy_frequency
    global_step,             \* the loop variable
    q_optimizer_steps,       \* steps taken by q_optimizer
    actor_optimizer_steps,   \* steps taken by actor_optimizer
    actor_loss               \* whether the name actor_loss is bound

tl_vars == <<tl_pc, tl_error, total_timesteps, learning_starts, policy_frequency,
             global_step, q_optimizer_steps, actor_optimizer_steps, actor_loss>>

(***************************************************************************)
(* State of a Lorenz or DoubleWell environment (custom_envs).              *)
(***************************************************************************)
VARIABLES
    env_pc,                  \* idle, made (constructed), reset (reset at least once)
    env_class,               \* Lorenz or DoubleWell
    max_episode_steps,       \* the module's max_episode_steps
    states,                  \* self.states: the step_count each state was recorded at
    step_count,              \* self.step_count
    random_draws,            \* DoubleWell: the length of self.random_draws
    noise_index,             \* DoubleWell: the index f last read random_draws at
    step_result,             \* none, returned or raised: how the last step call ended
    env_error,               \* the exception the last step call raised
    terminated,              \* the terminated flag the last step call returned
    step_calls               \* history: the step calls since the last reset

env_vars == <<env_pc, env_class, max_episode_steps, states, step_count, random_draws,
              noise_index, step_result, env_error, terminated, step_calls>>

(***************************************************************************)
(* State of the value network and the target value network of an Agent     *)
(* (lqr-soft-actor-critic.py).                                             *)
(***************************************************************************)
VARIABLES
    tv_pc,                   \* idle, made (Agent constructed), stepped, updated
    value_params,            \* the parameters of self.value, in name order
    target_value_params,     \* the parameters of self.target_value, same order
    tau,                     \* the tau of the last update_network_parameters
    target_before,           \* history: target_value_params before that update
    updates                  \* history: the calls of update_network_parameters

tv_vars == <<tv_pc, value_params, target_value_params, tau, target_before, updates>>

(***************************************************************************)
(* State of the ReplayBuffer of an Agent (lqr-soft-actor-critic.py).       *)
(***************************************************************************)
VARIABLES
    rb_pc,                   \* idle, made, stored, sampled, skipped, raised
    rb_call,                 \* the method called last
    memory_size,             \* self.memory_size
    memory_counter,          \* self.memory_counter
    state_memory,            \* the five arrays, one entry per slot
    new_state_memory,
    action_memory,
    reward_memory,
    terminal_memory,
    batch_size,              \* Agent.batch_size
    batch_indices,           \* the indices of the last sample (0-based, as drawn)
    sampled_batch,           \* the transitions the last sample returned
    transitions              \* history: the transitions stored, in order

rb_vars == <<rb_pc, rb_call, memory_size, memory_counter, state_memory,
             new_state_memory, action_memory, reward_memory, terminal_memory,
             batch_size, batch_indices, sampled_batch, transitions>>

(***************************************************************************)
(* State of the episode loop of the LQR soft-actor-critic script.          *)
(***************************************************************************)
VARIABLES
    lq_pc,                   \* idle, for (head of the for loop), while, plotted
    num_games,               \* num_games
    game,                    \* the loop variable of the for loop
    observation,             \* the current observation
    lq_action,               \* the action chosen last
    lq_done                  \* done

lq_vars == <<lq_pc, num_games, game, observation, lq_action, lq_done>>

\* the scripts and classes around the soft-actor-critic networks
more_vars == <<tl_vars, env_vars, tv_vars, rb_vars, lq_vars>>

\* everything outside the training loop of the discrete policy classes
aux_vars == <<q_vars, ga_vars, ca_vars, mem_vars, more_vars>>

\* what the soft-actor-critic script leaves alone
not_q_vars == <<vars, ga_vars, ca_vars, mem_vars, more_vars>>

\* what a call of get_action leaves alone
not_ga_vars == <<vars, q_vars, ca_vars, mem_vars, more_vars>>

\* what a continuous-action policy leaves alone
not_ca_vars == <<vars, q_vars, ga_vars, mem_vars, more_vars>>

\* what a Memory leaves alone
not_mem_vars == <<vars, q_vars, ga_vars, ca_vars, more_vars>>

\* what the main loop of the soft-actor-critic script leaves alone
not_tl_vars == <<vars, q_vars, ga_vars, ca_vars, mem_vars, env_vars, tv_vars, rb_vars,
                 lq_vars>>

\* what the episode loop of the LQR script leaves alone
not_lq_vars == <<vars, q_vars, ga_vars, ca_vars, mem_vars, tl_vars, env_vars, tv_vars,
                 rb_vars>>

\* the LQR script has not reached its episode loop
LqIdle ==
    /\ lq_pc = "idle"
    /\ num_games = 0
    /\ game = 0
    /\ observation = 0
    /\ lq_action = 0
    /\ lq_done = FALSE

\* what a ReplayBuffer leaves alone
not_rb_vars == <<vars, q_vars, ga_vars, ca_vars, mem_vars, tl_vars, env_vars, tv_vars,
                 lq_vars>>

\* no ReplayBuffer exists
RbIdle ==
    /\ rb_pc = "idle"
    /\ rb_call = "none"
    /\ memory_size = 0
    /\ memory_counter = 0
    /\ state_memory = <<>>
    /\ new_state_memory = <<>>
    /\ action_memory = <<>>
    /\ reward_memory = <<>>
    /\ terminal_memory = <<>>
    /\ batch_size = 0
    /\ batch_indices = <<>>
    /\ sampled_batch = <<>>
    /\ transitions = <<>>

\* what the value networks of an Agent leave alone
not_tv_vars == <<vars, q_vars, ga_vars, ca_vars, mem_vars, tl_vars, env_vars, rb_vars,
                 lq_vars>>

\* no Agent exists
TvIdle ==
    /\ tv_pc = "idle"
    /\ value_params = <<>>
    /\ target_value_params = <<>>
    /\ tau = Zero
    /\ target_before = <<>>
    /\ updates = 0

\* what an environment leaves alone
not_env_vars == <<vars, q_vars, ga_vars, ca_vars, mem_vars, tl_vars, tv_vars, rb_vars,
                  lq_vars>>

\* no environment exists
EnvIdle ==
    /\ env_pc = "idle"
    /\ env_class = "none"
    /\ max_episode_steps = 0
    /\ states = <<>>
    /\ step_count = 0
    /\ random_draws = 0
    /\ noise_index = -1
    /\ step_result = "none"
    /\ env_error = "none"
    /\ terminated = FALSE
    /\ step_calls = 0

\* the soft-actor-critic script has not started its loop
TlIdle ==
    /\ tl_pc = "idle"
    /\ tl_error = "none"
    /\ total_timesteps = 0
    /\ learning_starts = 0
    /\ policy_frequency = 0
    /\ global_step = 0
    /\ q_optimizer_steps = 0
    /\ actor_optimizer_steps = 0
    /\ actor_loss = "unbound"

MoreIdle == TlIdle /\ EnvIdle /\ TvIdle /\ RbIdle /\ LqIdle

\* no Memory exists
MemIdle ==
    /\ mem_pc = "idle"
    /\ capacity = 0
    /\ data = <<>>
    /\ pointer = 0
    /\ stored = <<>>

\* no continuous-action policy exists
CaIdle ==
    /\ ca_pc = "idle"
    /\ ca_impl = "none"
    /\ action_minimums = <<>>
    /\ action_maximums = <<>>
    /\ tanh_u = <<>>
    /\ ca_action = <<>>
    /\ log_arg = <<>>

\* get_action has not been called
GaIdle ==
    /\ ga_pc = "idle"
    /\ ga_error = "none"
    /\ ga_x = StateNaN
    /\ num_samples = 0
    /\ action_probabilities = <<>>
    /\ action_indices = <<>>
    /\ actions = <<>>
    /\ log_probabilities = <<>>

\* no soft-actor-critic script runs
QIdle ==
    /\ q_pc = "idle"
    /\ args_gamma = Zero
    /\ env_dt = 0
    /\ args_koopman = FALSE
    /\ dones = 0
    /\ vf_next = Zero
    /\ q_target_values = Zero

AuxIdle == QIdle /\ GaIdle /\ CaIdle /\ MemIdle /\ MoreIdle

Variants == {"final", "generalized"}

\* the generalized class saves every 250 episodes
ChkptCadence == 250

\* a file: absent, partial (opened for writing, not completed) or complete;
\* stamp = <<run, episode>> of the checkpoint that wrote it
AbsentFile(content) == [st |-> "absent", data |-> content, stamp |-> <<0, 0>>]

PartialFile(content) == [st |-> "partial", data |-> content, stamp |-> <<0, 0>>]

CompleteFile(content, stamp) == [st |-> "complete", data |-> content, stamp |-> stamp]

TrainPcs == {"episode", "step", "backprop", "refit", "chkpt",
             "save_policy", "writing_policy", "save_weights", "writing_weights",
             "save_data"}

\* the locals of train before the first episode, and after train has ended
NoArgs ==
    /\ num_training_episodes' = 0
    /\ num_steps_per_episode' = 0
    /\ how_often_to_chkpt' = 0

NoLoop ==
    /\ episode_num' = 0
    /\ step_num' = 0
    /\ state' = StateNaN
    /\ V_xs_per_episode' = <<>>
    /\ V_x_primes_per_episode' = <<>>
    /\ rewards_per_episode' = <<>>

\* no policy object exists
NoObject ==
    /\ policy_model' = NoPolicy
    /\ policy_grad' = "none"
    /\ optimizer_steps' = 0
    /\ value_function_weights' = NoWeights
    /\ x_batch_indices' = <<>>

\* no policy object, no checkpoint on disk
NoProcess ==
    /\ pc = "none"
    /\ error = "none"
    /\ runs = 0
    /\ files = [policy |-> AbsentFile(NoPolicy), weights |-> AbsentFile(NoWeights)]
    /\ variant = "final"
    /\ load_model = FALSE
    /\ dynamics_model = NoModel
    /\ all_actions = <<>>
    /\ env_states = {}
    /\ state_minimums = <<>>
    /\ w_hat_batch_size = 0
    /\ policy_model = NoPolicy
    /\ policy_grad = "none"
    /\ optimizer_steps = 0
    /\ value_function_weights = NoWeights
    /\ num_training_episodes = 0
    /\ num_steps_per_episode = 0
    /\ how_often_to_chkpt = 0
    /\ episode_num = 0
    /\ step_num = 0
    /\ state = StateNaN
    /\ V_xs_per_episode = <<>>
    /\ V_x_primes_per_episode = <<>>
    /\ rewards_per_episode = <<>>
    /\ x_batch_indices = <<>>

Init == NoProcess /\ AuxIdle

(***************************************************************************)
(* __init__: a new process constructs a policy, fresh or from the files.   *)
(***************************************************************************)
\* torch.load of a file raises unless the file is complete
Loadable(f) == f.st = "complete"

ConstructFresh(v, setup, mins, size) ==
    /\ \E pm \in FreshPolicies(Len(setup.all_actions)) : policy_model' = pm
    /\ value_function_weights' = ZeroWeights(setup.model)
    /\ pc' = "ready"
    /\ error' = "none"

\* a constructor that falls back to zero weights when only the weights file
\* cannot be loaded
ConstructLoad_FallsBack(v, setup, mins, size) ==
    IF Loadable(files.policy)
    THEN /\ policy_model' = files.policy.data
         /\ value_function_weights' =
               IF Loadable(files.weights) THEN files.weights.data
               ELSE ZeroWeights(setup.model)
         /\ pc' = "ready"
         /\ error' = "none"
    ELSE /\ policy_model' = NoPolicy
         /\ value_function_weights' = NoWeights
         /\ pc' = "ctor_raised"
         /\ error' = "LoadError"

\* torch.load of policy.pt, then of the value weights file; either raises
ConstructLoad(v, setup, mins, size) ==
    IF Loadable(files.policy) /\ Loadable(files.weights)
    THEN /\ policy_model' = files.policy.data
         /\ value_function_weights' = files.weights.data
         /\ pc' = "ready"
         /\ error' = "none"
    ELSE /\ policy_model' = NoPolicy
         /\ value_function_weights' = NoWeights
         /\ pc' = "ctor_raised"
         /\ error' = "LoadError"

Construct(v, setup, mins, size, load) ==
    /\ pc \notin TrainPcs \cup {"ready"}
    /\ runs < MaxRuns
    /\ runs' = runs + 1
    /\ variant' = v
    /\ load_model' = load
    /\ dynamics_model' = setup.model
    /\ all_actions' = setup.all_actions
    /\ env_states' = setup.states
    /\ state_minimums' = mins
    /\ w_hat_batch_size' = size
    /\ IF load THEN ConstructLoad(v, setup, mins, size)
               ELSE ConstructFresh(v, setup, mins, size)
    /\ policy_grad' = "none"
    /\ optimizer_steps' = 0
    /\ x_batch_indices' = <<>>
    /\ NoArgs
    /\ NoLoop
    /\ UNCHANGED files
    /\ UNCHANGED aux_vars

(***************************************************************************)
(* train: the arguments, then one action per place of the episode loop.    *)
(***************************************************************************)
\* train raised: its locals are gone, the object keeps its fields
Raise(e) ==
    /\ pc' = "raised"
    /\ error' = e
    /\ NoArgs
    /\ NoLoop

\* np.random.uniform(state_minimums, state_maximums, [x_dim, episodes]) raises
\* unless the bounds broadcast against the x_dim rows
TrainBegin(episodes, steps, chkpt) ==
    /\ pc = "ready"
    /\ IF Len(state_minimums) \notin {1, dynamics_model.x_dim}
       THEN /\ Raise("DimError")
       ELSE /\ pc' = "episode"
            /\ num_training_episodes' = episodes
            /\ num_steps_per_episode' = steps
            /\ how_often_to_chkpt' = IF variant = "final" THEN chkpt ELSE ChkptCadence
            /\ NoLoop
            /\ UNCHANGED error
    /\ UNCHANGED <<runs, files, obj_vars, learn_vars, x_batch_indices>>
    /\ UNCHANGED aux_vars

\* The initial states are drawn by train before its loop, one column per
\* episode; each is chosen here, where its episode reads it.
EpisodeBegin ==
    /\ pc = "episode"
    /\ episode_num < num_training_episodes
    /\ V_xs_per_episode' = [i \in 1..num_steps_per_episode |-> Zero]
    /\ V_x_primes_per_episode' = [i \in 1..num_steps_per_episode |-> Zero]
    /\ rewards_per_episode' = [i \in 1..num_steps_per_episode |-> Zero]
    /\ \E x \in env_states : state' = x
    /\ step_num' = 0
    /\ pc' = "step"
    /\ UNCHANGED <<error, runs, files, obj_vars, learn_vars, arg_vars, episode_num,
                   x_batch_indices>>
    /\ UNCHANGED aux_vars

TrainReturn ==
    /\ pc = "episode"
    /\ episode_num = num_training_episodes
    /\ pc' = "done"
    /\ NoArgs
    /\ NoLoop
    /\ UNCHANGED <<error, runs, files, obj_vars, learn_vars, x_batch_indices>>
    /\ UNCHANGED aux_vars

\* a validation that lets every distribution through to the sampler
GetActionError_Unchecked(pm, catalog, x) == "none"

\* get_action: np.random.choice(all_actions.shape[1], p=np.squeeze(...)) raises
\* when the policy has one output (np.squeeze leaves a 0-d array, which has no
\* len), when p has another length than the catalog, and when p holds NaN
GetActionError(pm, catalog, x) ==
    IF pm.n_out = 1 THEN "TypeError"
    ELSE IF pm.n_out # Len(catalog) THEN "DimError"
    ELSE IF AnyNaN(policy_forward(pm, x)) THEN "ValueError"
    ELSE IF \E u \in 1..pm.n_out : policy_forward(pm, x)[u].n < 0 THEN "ValueError"
    ELSE IF SumSeq(policy_forward(pm, x)) # One THEN "ValueError"
    ELSE "none"

\* the indices get_action can sample at state x
ActionIndices(pm, x) ==
    {u \in 1..pm.n_out : LET q == policy_forward(pm, x)[u] IN ~q.nan /\ q.n > 0}

\* value_function_weights.T @ phi(state) raises unless the lengths agree
ValueError(weights, model) ==
    IF Len(weights.w) # model.phi_dim THEN "DimError" ELSE "none"

\* the first exception of one pass of the step loop, "none" when it completes
StepError ==
    LET g == GetActionError(policy_model, all_actions, state)
        v == ValueError(value_function_weights, dynamics_model)
    IN  IF variant = "final"
        THEN (IF v # "none" THEN v ELSE g)
        ELSE (IF g # "none" THEN g ELSE v)

\* one pass of the step loop: V_x, get_action, true_dynamics, cost, V_x_prime;
\* new_weights is what the pass leaves in self.value_function_weights
StepLoop(new_weights) ==
    /\ pc = "step"
    /\ IF StepError # "none"
       THEN /\ Raise(StepError)
            /\ UNCHANGED <<value_function_weights>>
       ELSE \E u \in ActionIndices(policy_model, state) :
            \E next_state \in env_states \cup {StateNaN} :
            LET i == step_num + 1
                V_x == value(value_function_weights, phi(dynamics_model, state))
                curr_reward == Neg(cost(state, all_actions[u]))
                V_x_prime == value(value_function_weights,
                                   phi(dynamics_model, next_state))
            IN  /\ V_xs_per_episode' = [V_xs_per_episode EXCEPT ![i] = V_x]
                /\ rewards_per_episode' = [rewards_per_episode EXCEPT ![i] = curr_reward]
                /\ V_x_primes_per_episode' =
                      IF variant = "final"
                      THEN [V_x_primes_per_episode EXCEPT ![i] = V_x_prime]
                      ELSE V_x_primes_per_episode
                /\ value_function_weights' = new_weights
                /\ state' = next_state
                /\ step_num' = i
                /\ pc' = IF i = num_steps_per_episode THEN "backprop" ELSE "step"
                /\ UNCHANGED <<error, arg_vars, episode_num>>
    /\ UNCHANGED <<runs, files, obj_vars, policy_model, policy_grad, optimizer_steps,
                   x_batch_indices>>
    /\ UNCHANGED aux_vars

\* a pass that shifts the weights it evaluates
Step_ChangesWeights ==
    StepLoop([value_function_weights EXCEPT
                !.w = [i \in 1..Len(@) |-> Add(@[i], One)]])

\* a pass that refits the critic after each environment step
Step_Refits ==
    StepLoop(LET batches == Batches(Len(dynamics_model.X), w_hat_batch_size)
             IN  IF batches = {} THEN value_function_weights
                 ELSE RefitWeights(value_function_weights, policy_model,
                                   dynamics_model, all_actions,
                                   CHOOSE b \in batches : TRUE))

\* the evaluations of the step loop only read the weights
Step == StepLoop(value_function_weights)

\* final: advantage = rewards + discount * V_x_primes - V_xs
advantage_per_episode ==
    [i \in 1..num_steps_per_episode |->
        Sub(Add(rewards_per_episode[i],
                Mul(discount_factor, V_x_primes_per_episode[i])),
            V_xs_per_episode[i])]

\* generalized: the normalised returns are NaN when a reward is, and when the
\* episode has one step (the standard deviation of one number is NaN)
ReturnsNaN == num_steps_per_episode = 1 \/ AnyNaN(rewards_per_episode)

\* whether the actor loss, hence every gradient, is NaN
LossNaN ==
    IF variant = "final" THEN AnyNaN(advantage_per_episode)
    ELSE ReturnsNaN \/ AnyNaN(V_xs_per_episode)

\* zero_grad, backward, optimizer step: NaN gradients make every parameter NaN.
\* The loss is the last reader of the episode's state and arrays that has an
\* effect (the progress print and the training data files have none here), so
\* they are dropped with it.  `next` is the place of train after it.
BackpropThen(next) ==
    /\ pc = "backprop"
    /\ IF LossNaN
       THEN /\ policy_grad' = "nan"
            /\ policy_model' = NaNPolicy(policy_model.n_out)
       ELSE /\ policy_grad' = "finite"
            /\ \E t \in PolicyTables(policy_model.n_out) :
                   policy_model' = Policy(policy_model.n_out, t)
    /\ optimizer_steps' = optimizer_steps + 1
    /\ pc' = next
    /\ state' = StateNaN
    /\ V_xs_per_episode' = <<>>
    /\ V_x_primes_per_episode' = <<>>
    /\ rewards_per_episode' = <<>>
    /\ UNCHANGED <<error, runs, files, obj_vars, value_function_weights, arg_vars,
                   episode_num, step_num, x_batch_indices>>
    /\ UNCHANGED aux_vars

\* a train whose gradient step goes straight to the checkpoint test, with no
\* refit of the critic for the stepped policy
Backprop_SkipsRefit == BackpropThen("chkpt")

\* the gradient step is followed by self.update_value_function_weights()
Backprop == BackpropThen("refit")

\* update_value_function_weights; `frame` is what it does to the object's
\* other fields
Refit(frame) ==
    /\ pc = "refit"
    /\ IF Batches(Len(dynamics_model.X), w_hat_batch_size) = {}
       THEN /\ Raise("ValueError")
            /\ UNCHANGED <<value_function_weights, x_batch_indices>>
       ELSE \E batch \in Batches(Len(dynamics_model.X), w_hat_batch_size) :
            /\ x_batch_indices' = batch
            /\ value_function_weights' =
                  RefitWeights(value_function_weights, policy_model,
                               dynamics_model, all_actions, batch)
            /\ pc' = "chkpt"
            /\ UNCHANGED <<error, arg_vars, loop_vars>>
    /\ frame
    /\ UNCHANGED <<runs, files>>
    /\ UNCHANGED aux_vars

\* a refit that draws its batch by shuffling the snapshot columns in place
UpdateValueFunctionWeights_ShufflesX ==
    Refit(/\ dynamics_model' =
                [dynamics_model EXCEPT
                   !.X = [i \in 1..Len(@) |-> @[Len(@) + 1 - i]]]
          /\ UNCHANGED <<variant, load_model, all_actions, env_states, state_minimums,
                         w_hat_batch_size, policy_model, policy_grad, optimizer_steps>>)

\* a refit whose forward pass clears the gradients of the policy
UpdateValueFunctionWeights_ClearsGrad ==
    Refit(/\ policy_grad' = "none"
          /\ UNCHANGED <<obj_vars, policy_model, optimizer_steps>>)

\* the forward pass runs under torch.no_grad(); the model's arrays are indexed,
\* never assigned
UpdateValueFunctionWeights ==
    Refit(UNCHANGED <<obj_vars, policy_model, policy_grad, optimizer_steps>>)

\* the end of an episode's pass of the loop
NextEpisode ==
    /\ episode_num' = episode_num + 1
    /\ pc' = "episode"
    /\ UNCHANGED <<step_num, state, V_xs_per_episode, V_x_primes_per_episode,
                   rewards_per_episode>>

CheckpointDue == episode_num = 0 \/ (episode_num + 1) % how_often_to_chkpt = 0

\* if episode_num == 0 or (episode_num+1) % how_often_to_chkpt == 0
Checkpoint ==
    /\ pc = "chkpt"
    /\ IF CheckpointDue
       THEN /\ pc' = "save_policy"
            /\ UNCHANGED loop_vars
       ELSE NextEpisode
    /\ UNCHANGED <<error, runs, files, obj_vars, learn_vars, arg_vars, x_batch_indices>>
    /\ UNCHANGED aux_vars

\* torch.save(self.policy_model, ...) opens the file, then completes it
SavePolicyOpen ==
    /\ pc = "save_policy"
    /\ files' = [files EXCEPT !.policy = PartialFile(NoPolicy)]
    /\ pc' = "writing_policy"
    /\ UNCHANGED <<error, runs, obj_vars, learn_vars, arg_vars, loop_vars,
                   x_batch_indices>>
    /\ UNCHANGED aux_vars

SavePolicyClose ==
    /\ pc = "writing_policy"
    /\ files' = [files EXCEPT
                   !.policy = CompleteFile(policy_model, <<runs, episode_num + 1>>)]
    /\ pc' = "save_weights"
    /\ UNCHANGED <<error, runs, obj_vars, learn_vars, arg_vars, loop_vars,
                   x_batch_indices>>
    /\ UNCHANGED aux_vars

\* torch.save(self.value_function_weights, ...)
SaveWeightsOpen ==
    /\ pc = "save_weights"
    /\ files' = [files EXCEPT !.weights = PartialFile(NoWeights)]
    /\ pc' = "writing_weights"
    /\ UNCHANGED <<error, runs, obj_vars, learn_vars, arg_vars, loop_vars,
                   x_batch_indices>>
    /\ UNCHANGED aux_vars

SaveWeightsClose ==
    /\ pc = "writing_weights"
    /\ files' = [files EXCEPT
                   !.weights = CompleteFile(value_function_weights,
                                            <<runs, episode_num + 1>>)]
    /\ IF variant = "final"
       THEN /\ pc' = "save_data"
            /\ UNCHANGED loop_vars
       ELSE NextEpisode
    /\ UNCHANGED <<error, runs, obj_vars, learn_vars, arg_vars, x_batch_indices>>
    /\ UNCHANGED aux_vars

\* np.save of the five training data arrays (final only)
SaveTrainingData ==
    /\ pc = "save_data"
    /\ NextEpisode
    /\ UNCHANGED <<error, runs, files, obj_vars, learn_vars, arg_vars, x_batch_indices>>
    /\ UNCHANGED aux_vars

SavePcs == {"save_policy", "writing_policy", "save_weights", "writing_weights",
            "save_data"}

\* a save raises (no space, no directory, no permission): nothing catches it
SaveFails ==
    /\ pc \in SavePcs
    /\ Raise("OSError")
    /\ UNCHANGED <<runs, files, obj_vars, learn_vars, x_batch_indices>>
    /\ UNCHANGED aux_vars

\* the process is killed: the object is gone, the files stay as they are
Interrupt ==
    /\ pc \in TrainPcs
    /\ pc' = "none"
    /\ error' = "none"
    /\ variant' = "final"
    /\ load_model' = FALSE
    /\ dynamics_model' = NoModel
    /\ all_actions' = <<>>
    /\ env_states' = {}
    /\ state_minimums' = <<>>
    /\ w_hat_batch_size' = 0
    /\ NoObject
    /\ NoArgs
    /\ NoLoop
    /\ UNCHANGED <<runs, files>>
    /\ UNCHANGED aux_vars

Next ==
    \/ \E v \in Variants, setup \in Setups, mins \in {<<0>>, <<0, 0>>},
          size \in 1..MaxBatch, load \in BOOLEAN :
          Construct(v, setup, mins, size, load)
    \/ \E episodes \in 1..MaxEpisodes, steps \in 1..MaxSteps, chkpt \in 2..MaxChkpt :
          TrainBegin(episodes, steps, chkpt)
    \/ EpisodeBegin
    \/ TrainReturn
    \/ Step
    \/ Backprop
    \/ UpdateValueFunctionWeights
    \/ Checkpoint
    \/ SavePolicyOpen
    \/ SavePolicyClose
    \/ SaveWeightsOpen
    \/ SaveWeightsClose
    \/ SaveTrainingData
    \/ SaveFails
    \/ Interrupt

Spec == Init /\ [][Next]_vars

(***************************************************************************)
(* The refit called by itself: update_value_function_weights is a method   *)
(* of the constructed object and needs no episode of train before it.      *)
(***************************************************************************)
RefitCall ==
    /\ pc = "ready"
    /\ IF Batches(Len(dynamics_model.X), w_hat_batch_size) = {}
       THEN /\ Raise("ValueError")
            /\ UNCHANGED <<value_function_weights, x_batch_indices>>
       ELSE \E batch \in Batches(Len(dynamics_model.X), w_hat_batch_size) :
            /\ x_batch_indices' = batch
            /\ value_function_weights' =
                  RefitWeights(value_function_weights, policy_model,
                               dynamics_model, all_actions, batch)
            /\ UNCHANGED <<pc, error, arg_vars, loop_vars>>
    /\ UNCHANGED <<runs, files, obj_vars, policy_model, policy_grad, optimizer_steps>>
    /\ UNCHANGED aux_vars

NextRefit ==
    \/ \E v \in Variants, setup \in Setups, mins \in {<<0>>, <<0, 0>>},
          size \in 1..MaxBatch, load \in BOOLEAN :
          Construct(v, setup, mins, size, load)
    \/ RefitCall

SpecRefit == Init /\ [][NextRefit]_<<vars, aux_vars>>

(***************************************************************************)
(* get_action(x, num_samples) called on a policy constructed fresh or from *)
(* the checkpoint an earlier run left on disk.                             *)
(***************************************************************************)
\* the largest num_samples
MaxSamples == 2

\* torch.log of a probability, kept as the logarithm of its argument
Log(q) == [log |-> q]

\* the policies and weights an earlier run can have saved
SavedPolicies ==
    UNION {{Policy(n, t) : t \in PolicyTables(n)} \cup {NaNPolicy(n)} : n \in 1..2}

SavedWeights == {ZeroWeights(TrivialModel), ZeroWeights(LinearModel)}

\* a complete checkpoint is on disk, no policy object exists yet
InitGetAction ==
    /\ \E pm \in SavedPolicies, w \in SavedWeights :
          files = [policy |-> CompleteFile(pm, <<0, 1>>),
                   weights |-> CompleteFile(w, <<0, 1>>)]
    /\ pc = "none"
    /\ error = "none"
    /\ runs = 0
    /\ variant = "final"
    /\ load_model = FALSE
    /\ dynamics_model = NoModel
    /\ all_actions = <<>>
    /\ env_states = {}
    /\ state_minimums = <<>>
    /\ w_hat_batch_size = 0
    /\ policy_model = NoPolicy
    /\ policy_grad = "none"
    /\ optimizer_steps = 0
    /\ value_function_weights = NoWeights
    /\ num_training_episodes = 0
    /\ num_steps_per_episode = 0
    /\ how_often_to_chkpt = 0
    /\ episode_num = 0
    /\ step_num = 0
    /\ state = StateNaN
    /\ V_xs_per_episode = <<>>
    /\ V_x_primes_per_episode = <<>>
    /\ rewards_per_episode = <<>>
    /\ x_batch_indices = <<>>
    /\ AuxIdle

\* get_action raises: nothing is returned
GetActionRaise(e) ==
    /\ ga_pc' = "raised"
    /\ ga_error' = e
    /\ action_indices' = <<>>
    /\ actions' = <<>>
    /\ log_probabilities' = <<>>

\* one call: the policy's output at x, num_samples indices drawn from it, the
\* catalog columns at the indices and the logs of the probabilities at them
GetActionCall(x, k) ==
    /\ pc = "ready"
    /\ ga_x' = x
    /\ num_samples' = k
    /\ action_probabilities' = policy_forward(policy_model, x)
    /\ LET e == GetActionError(policy_model, all_actions, x)
       IN  IF e # "none"
           THEN GetActionRaise(e)
           ELSE \E idx \in [1..k -> ActionIndices(policy_model, x)] :
                IF \E i \in 1..k : idx[i] > Len(all_actions)
                THEN GetActionRaise("IndexError")
                ELSE /\ action_indices' = idx
                     /\ actions' = [i \in 1..k |-> all_actions[idx[i]]]
                     /\ log_probabilities' =
                           [i \in 1..k |->
                               Log(policy_forward(policy_model, x)[idx[i]])]
                     /\ ga_pc' = "returned"
                     /\ ga_error' = "none"
    /\ UNCHANGED not_ga_vars

NextGetAction ==
    \/ \E v \in Variants, setup \in Setups, load \in BOOLEAN :
          Construct(v, setup, <<0>>, 1, load)
    \/ \E x \in States \cup {StateNaN}, k \in 1..MaxSamples : GetActionCall(x, k)

SpecGetAction == InitGetAction /\ [][NextGetAction]_<<vars, aux_vars>>

(***************************************************************************)
(* The continuous-action policies: a Gaussian sample u, squashed by tanh   *)
(* and rescaled to the action bounds, and the log that corrects its        *)
(* log-probability.  A sample is known by tanh(u), which float arithmetic  *)
(* rounds to -1 and 1 for large u.                                         *)
(***************************************************************************)
\* the largest number of action components
MaxActionDim == 2

TanhVals == {Rat(k, 2) : k \in -2..2}

\* the (minimum, maximum) pairs one action component is bounded by
BoundPairs == {<<-1, 1>>, <<-2, 2>>, <<0, 2>>}

\* the bounds ActorNetwork's max_action stands for
MaxActions == {1, 2}

Leq(a, b) == ~a.nan /\ ~b.nan /\ a.n * b.d <= b.n * a.d

\* torch.clamp(v, lo, hi)
Clamp(v, lo, hi) == IF v.nan THEN NaN ELSE IF Leq(v, lo) THEN lo ELSE IF Leq(hi, v) THEN hi ELSE v

reparameterization_noise == Rat(1, 1000000)

\* 0.5 * (a + 1) * (max - min) + min
scale_action(a, min, max) ==
    Add(Mul(Mul(Rat(1, 2), Add(a, One)), Sub(max, min)), min)

\* cleanrl Actor.get_action: action = y * action_scale + action_bias,
\* log_prob -= log(action_scale * (1 - y^2) + 1e-6), each per component
Actor_get_action(y, mins, maxs) ==
    LET action_scale(i) == Rat(maxs[i] - mins[i], 2)
        action_bias(i) == Rat(maxs[i] + mins[i], 2)
    IN  [action |-> [i \in 1..Len(y) |-> Add(Mul(y[i], action_scale(i)), action_bias(i))],
         log_arg |-> [i \in 1..Len(y) |->
                        Add(Mul(action_scale(i), Sub(One, Mul(y[i], y[i]))),
                            reparameterization_noise)]]

\* PolicyNetwork.sample_action_and_log_probability (and sample_action): every
\* component is scaled with action_minimums[0] and action_maximums[0];
\* log_prob -= log(clamp(1 - a^2, 1e-6, 1.0)) with a the scaled action
PolicyNetwork_sample(y, mins, maxs) ==
    LET a == [i \in 1..Len(y) |->
                scale_action(y[i], Int2Num(mins[1]), Int2Num(maxs[1]))]
    IN  [action |-> a,
         log_arg |-> [i \in 1..Len(y) |->
                        Clamp(Sub(One, Mul(a[i], a[i])), reparameterization_noise, One)]]

\* lqr ActorNetwork.sample_normal: action = tanh(u) * max_action,
\* log_probs -= log(1 - action^2 + 1e-6)
ActorNetwork_sample_normal(y, mins, maxs) ==
    LET a == [i \in 1..Len(y) |-> Mul(y[i], Int2Num(maxs[1]))]
    IN  [action |-> a,
         log_arg |-> [i \in 1..Len(y) |->
                        Add(Sub(One, Mul(a[i], a[i])), reparameterization_noise)]]

\* a policy is constructed for an action space
MakeContinuousPolicy(impl, mins, maxs) ==
    /\ ca_pc = "idle"
    /\ ca_pc' = "made"
    /\ ca_impl' = impl
    /\ action_minimums' = mins
    /\ action_maximums' = maxs
    /\ UNCHANGED <<tanh_u, ca_action, log_arg>>
    /\ UNCHANGED not_ca_vars

\* one action is sampled, with its log-probability
SampleAction(y) ==
    /\ ca_pc \in {"made", "sampled"}
    /\ ca_pc' = "sampled"
    /\ tanh_u' = y
    /\ LET r == CASE ca_impl = "Actor" ->
                      Actor_get_action(y, action_minimums, action_maximums)
                  [] ca_impl = "PolicyNetwork" ->
                      PolicyNetwork_sample(y, action_minimums, action_maximums)
                  [] ca_impl = "ActorNetwork" ->
                      ActorNetwork_sample_normal(y, action_minimums, action_maximums)
       IN  /\ ca_action' = r.action
           /\ log_arg' = r.log_arg
    /\ UNCHANGED <<ca_impl, action_minimums, action_maximums>>
    /\ UNCHANGED not_ca_vars

InitContinuous == NoProcess /\ AuxIdle

NextContinuous ==
    \/ \E impl \in {"Actor", "PolicyNetwork"}, n \in 1..MaxActionDim :
       \E b \in [1..n -> BoundPairs] :
          MakeContinuousPolicy(impl, [i \in 1..n |-> b[i][1]], [i \in 1..n |-> b[i][2]])
    \/ \E n \in 1..MaxActionDim, max_action \in MaxActions :
          MakeContinuousPolicy("ActorNetwork", [i \in 1..n |-> -max_action],
                               [i \in 1..n |-> max_action])
    \/ \E y \in [1..Len(action_minimums) -> TanhVals] : SampleAction(y)

SpecContinuous == InitContinuous /\ [][NextContinuous]_<<vars, aux_vars>>

(***************************************************************************)
(* Memory: the replay store of the soft-actor-critic networks.             *)
(***************************************************************************)
\* the largest capacity, the most stores between two forgets, the events
MaxCapacity == 3
MaxStores == 5
MaxEvent == 2

\* the placeholder store appends before it writes the event
None == 0

\* a store that appends a slot on every call
Memory_store_AlwaysAppends(d, p, cap, event) ==
    [data |-> [Append(d, None) EXCEPT ![p + 1] = event],
     pointer |-> (p + 1) % cap]

\* store: append a slot while there is room, write the event at the pointer,
\* advance the pointer modulo the capacity
Memory_store(d, p, cap, event) ==
    LET grown == IF Len(d) < cap THEN Append(d, None) ELSE d
    IN  [data |-> [grown EXCEPT ![p + 1] = event],
         pointer |-> (p + 1) % cap]

\* Memory(capacity)
MemoryInit(cap) ==
    /\ mem_pc = "idle"
    /\ mem_pc' = "made"
    /\ capacity' = cap
    /\ data' = <<>>
    /\ pointer' = 0
    /\ stored' = <<>>
    /\ UNCHANGED not_mem_vars

Store(event) ==
    /\ mem_pc = "made"
    /\ Len(stored) < MaxStores
    /\ LET r == Memory_store(data, pointer, capacity, event)
       IN  /\ data' = r.data
           /\ pointer' = r.pointer
    /\ stored' = Append(stored, event)
    /\ UNCHANGED <<mem_pc, capacity>>
    /\ UNCHANGED not_mem_vars

Forget ==
    /\ mem_pc = "made"
    /\ data' = <<>>
    /\ pointer' = 0
    /\ stored' = <<>>
    /\ UNCHANGED <<mem_pc, capacity>>
    /\ UNCHANGED not_mem_vars

InitMemory == NoProcess /\ AuxIdle

NextMemory ==
    \/ \E cap \in 1..MaxCapacity : MemoryInit(cap)
    \/ \E event \in 1..MaxEvent : Store(event)
    \/ Forget

SpecMemory == InitMemory /\ [][NextMemory]_<<vars, aux_vars>>

(***************************************************************************)
(* The soft-actor-critic script: the Q target of one update of its         *)
(* training loop.                                                          *)
(***************************************************************************)
\* the largest timestep, in whole units
MaxDt == 2

\* the values --gamma ranges over
ArgGammas == {Rat(1, 2), Rat(1, 3)}

\* the values of the target V network at a next observation
VNextVals == {Rat(k, 2) : k \in -3..3}

\* vf_next_target = (1 - dones) * args.gamma * V(next observation), in both
\* branches of args.koopman; the reward is not added (q_target_values is
\* vf_next_target)
vf_next_target(done, g, v) == Mul(Mul(Int2Num(1 - done), g), v)

\* the arguments are parsed and the environment is made
ParseArgs(g, d, k) ==
    /\ q_pc = "idle"
    /\ q_pc' = "args"
    /\ args_gamma' = g
    /\ env_dt' = d
    /\ args_koopman' = k
    /\ UNCHANGED <<dones, vf_next, q_target_values>>
    /\ UNCHANGED not_q_vars

\* one update after learning_starts: a transition is sampled from the replay
\* buffer and the Q target is computed from it
QTargetUpdate(done, v) ==
    /\ q_pc \in {"args", "target"}
    /\ q_pc' = "target"
    /\ dones' = done
    /\ vf_next' = v
    /\ q_target_values' = vf_next_target(done, args_gamma, v)
    /\ UNCHANGED <<args_gamma, env_dt, args_koopman>>
    /\ UNCHANGED not_q_vars

InitSAC == NoProcess /\ AuxIdle

NextSAC ==
    \/ \E g \in ArgGammas, d \in 1..MaxDt, k \in BOOLEAN : ParseArgs(g, d, k)
    \/ \E done \in {0, 1}, v \in VNextVals : QTargetUpdate(done, v)

SpecSAC == InitSAC /\ [][NextSAC]_<<vars, aux_vars>>

(***************************************************************************)
(* The main loop of the soft-actor-critic script                           *)
(* (cleanrl/value_function_continuous_action.py): one pass per global_step,*)
(* with the updates of the Q networks and of the actor and the logging.    *)
(***************************************************************************)
MaxTimesteps == 104
MaxLearningStarts == 99
MaxPolicyFrequency == 3

\* losses are logged when global_step % 100 == 0
LogInterval == 100

\* an actor that takes one gradient step when its update is due
ActorUpdates_Once(step, frequency) == IF step % frequency = 0 THEN 1 ELSE 0

\* if global_step % args.policy_frequency == 0:
\*     for _ in range(args.policy_frequency): ... actor_optimizer.step()
ActorUpdates(step, frequency) == IF step % frequency = 0 THEN frequency ELSE 0

\* obs = envs.reset() and the first pass of the for loop
StartLoop(total, starts, frequency) ==
    /\ tl_pc = "idle"
    /\ tl_pc' = "loop"
    /\ total_timesteps' = total
    /\ learning_starts' = starts
    /\ policy_frequency' = frequency
    /\ global_step' = 0
    /\ UNCHANGED <<tl_error, q_optimizer_steps, actor_optimizer_steps, actor_loss>>
    /\ UNCHANGED not_tl_vars

\* a pass with global_step <= learning_starts: an action, envs.step, rb.add, and
\* no update
Collect ==
    /\ tl_pc = "loop"
    /\ global_step < total_timesteps
    /\ ~(global_step > learning_starts)
    /\ global_step' = global_step + 1
    /\ UNCHANGED <<tl_pc, tl_error, total_timesteps, learning_starts, policy_frequency,
                   q_optimizer_steps, actor_optimizer_steps, actor_loss>>
    /\ UNCHANGED not_tl_vars

\* a pass with global_step > learning_starts: the Q networks step once, the
\* actor when due, and every 100th step the losses are logged, actor_loss among
\* them (a NameError when no actor update has bound it)
Update ==
    /\ tl_pc = "loop"
    /\ global_step < total_timesteps
    /\ global_step > learning_starts
    /\ q_optimizer_steps' = q_optimizer_steps + 1
    /\ actor_optimizer_steps' =
          actor_optimizer_steps + ActorUpdates(global_step, policy_frequency)
    /\ actor_loss' = IF ActorUpdates(global_step, policy_frequency) > 0
                     THEN "bound" ELSE actor_loss
    /\ IF global_step % LogInterval = 0 /\ actor_loss' = "unbound"
       THEN /\ tl_pc' = "raised"
            /\ tl_error' = "NameError"
            /\ UNCHANGED global_step
       ELSE /\ global_step' = global_step + 1
            /\ UNCHANGED <<tl_pc, tl_error>>
    /\ UNCHANGED <<total_timesteps, learning_starts, policy_frequency>>
    /\ UNCHANGED not_tl_vars

\* the loop is over: envs.close(), writer.close()
CloseLoop ==
    /\ tl_pc = "loop"
    /\ global_step = total_timesteps
    /\ tl_pc' = "closed"
    /\ UNCHANGED <<tl_error, total_timesteps, learning_starts, policy_frequency,
                   global_step, q_optimizer_steps, actor_optimizer_steps, actor_loss>>
    /\ UNCHANGED not_tl_vars

InitLoop == NoProcess /\ AuxIdle

NextLoop ==
    \/ \E total \in {MaxTimesteps}, starts \in 0..MaxLearningStarts,
          frequency \in 1..MaxPolicyFrequency : StartLoop(total, starts, frequency)
    \/ Collect
    \/ Update
    \/ CloseLoop

SpecLoop == InitLoop /\ [][NextLoop]_<<vars, aux_vars>>

(***************************************************************************)
(* The Lorenz and DoubleWell environments: reset and step, as far as the   *)
(* step counter, the state history and the noise buffer go.                *)
(***************************************************************************)
\* max_episode_steps = int(20 / dt) is 2000 in the code; here 1..MaxEpisodeSteps
MaxEpisodeSteps == 3

\* the step calls made on one environment between two resets
MaxStepCalls == 33

\* DoubleWell.reset draws max_episode_steps * 10 noise samples
BufferFactor == 10

EnvClasses == {"Lorenz", "DoubleWell"}

\* self.random_draws[self.step_count] raises IndexError from size on
NoiseReadable(index, size) == index < size

\* the module is imported (max_episode_steps) and the environment constructed:
\* self.states = [], and neither self.state nor self.step_count exist yet
EnvMake(class, steps) ==
    /\ env_pc = "idle"
    /\ env_pc' = "made"
    /\ env_class' = class
    /\ max_episode_steps' = steps
    /\ UNCHANGED <<states, step_count, random_draws, noise_index, step_result,
                   env_error, terminated, step_calls>>
    /\ UNCHANGED not_env_vars

\* reset: a fresh state, self.states = [self.state], the noise buffer
\* (DoubleWell), self.step_count = 0
EnvReset ==
    /\ env_pc \in {"made", "reset"}
    /\ env_pc' = "reset"
    /\ states' = <<0>>
    /\ random_draws' = IF env_class = "DoubleWell"
                       THEN max_episode_steps * BufferFactor ELSE random_draws
    /\ step_count' = 0
    /\ step_calls' = 0
    /\ step_result' = "none"
    /\ env_error' = "none"
    /\ UNCHANGED <<env_class, max_episode_steps, noise_index, terminated>>
    /\ UNCHANGED not_env_vars

\* step: the reward reads self.state (AttributeError before the first reset);
\* f reads the noise at step_count (DoubleWell) and raises IndexError past the
\* buffer, before anything is assigned; then the state is recorded, the counter
\* advanced and terminated returned
EnvStep ==
    /\ env_pc \in {"made", "reset"}
    /\ step_calls < MaxStepCalls
    /\ step_calls' = step_calls + 1
    /\ IF env_pc = "made"
       THEN /\ step_result' = "raised"
            /\ env_error' = "AttributeError"
            /\ UNCHANGED <<states, step_count, noise_index, terminated>>
       ELSE IF env_class = "DoubleWell" /\ ~NoiseReadable(step_count, random_draws)
       THEN /\ step_result' = "raised"
            /\ env_error' = "IndexError"
            /\ noise_index' = step_count
            /\ UNCHANGED <<states, step_count, terminated>>
       ELSE /\ noise_index' = IF env_class = "DoubleWell"
                              THEN step_count ELSE noise_index
            /\ states' = Append(states, step_count + 1)
            /\ step_count' = step_count + 1
            /\ terminated' = (step_count' >= max_episode_steps)
            /\ step_result' = "returned"
            /\ env_error' = "none"
    /\ UNCHANGED <<env_pc, env_class, max_episode_steps, random_draws>>
    /\ UNCHANGED not_env_vars

InitEnv == NoProcess /\ AuxIdle

NextEnv ==
    \/ \E class \in EnvClasses, steps \in 1..MaxEpisodeSteps : EnvMake(class, steps)
    \/ EnvReset
    \/ EnvStep

SpecEnv == InitEnv /\ [][NextEnv]_<<vars, aux_vars>>

(***************************************************************************)
(* Agent.update_network_parameters (lqr-soft-actor-critic.py): the update  *)
(* of the target value network from the value network.                     *)
(***************************************************************************)
\* the number of named parameters of a value network (six in the code)
MaxParams == 2

\* the values a parameter takes
MaxParamVal == 2

ParamVals == {Int2Num(i) : i \in 0..MaxParamVal}

\* the calls of update_network_parameters on one Agent
MaxUpdates == 3

\* the tau of a call: 1 at construction, self.tau < 1 in learn
Taus == {One, Rat(1, 2)}

\* the for loop from name number i on.  value_state_dict holds the value
\* network's parameters, entry by entry replaced by the mix; target is the
\* target network's parameters, which target_value_state_dict refers to (not
\* copies) and which load_state_dict, inside the loop, overwrites with the
\* whole of value_state_dict after each name.
RECURSIVE UpdateLoop(_, _, _, _)
UpdateLoop(i, t, value_state_dict, target) ==
    IF i > Len(value_state_dict) THEN target
    ELSE LET mixed == [value_state_dict EXCEPT
                          ![i] = Add(Mul(t, value_state_dict[i]),
                                     Mul(Sub(One, t), target[i]))]
         IN  UpdateLoop(i + 1, t, mixed, mixed)

\* the parameters of self.target_value after update_network_parameters(tau=t)
update_network_parameters(t, value_net, target_net) == UpdateLoop(1, t, value_net, target_net)

\* Agent.__init__: the two networks are initialised independently, then
\* self.update_network_parameters(tau=1)
AgentInit(value_net, target_net) ==
    /\ tv_pc = "idle"
    /\ tv_pc' = "made"
    /\ value_params' = value_net
    /\ tau' = One
    /\ target_before' = target_net
    /\ target_value_params' = update_network_parameters(One, value_net, target_net)
    /\ updates' = 1
    /\ UNCHANGED not_tv_vars

\* learn: self.value_net.optimizer.step() moves the value_net network
ValueStep(value_net) ==
    /\ tv_pc \in {"made", "updated"}
    /\ tv_pc' = "stepped"
    /\ value_params' = value_net
    /\ UNCHANGED <<target_value_params, tau, target_before, updates>>
    /\ UNCHANGED not_tv_vars

\* learn: self.update_network_parameters(), or a call with a tau
UpdateNetworkParameters(t) ==
    /\ tv_pc \in {"made", "stepped", "updated"}
    /\ updates < MaxUpdates
    /\ updates' = updates + 1
    /\ tv_pc' = "updated"
    /\ tau' = t
    /\ target_before' = target_value_params
    /\ target_value_params' =
          update_network_parameters(t, value_params, target_value_params)
    /\ UNCHANGED value_params
    /\ UNCHANGED not_tv_vars

InitTarget == NoProcess /\ AuxIdle

NextTarget ==
    \/ \E value_net, target_net \in [1..MaxParams -> ParamVals] : AgentInit(value_net, target_net)
    \/ \E value_net \in [1..MaxParams -> ParamVals] : ValueStep(value_net)
    \/ \E t \in Taus : UpdateNetworkParameters(t)

SpecTarget == InitTarget /\ [][NextTarget]_<<vars, aux_vars>>

(***************************************************************************)
(* ReplayBuffer and the guard of Agent.learn (lqr-soft-actor-critic.py).   *)
(* Slot i of the code's arrays is entry i + 1 of the sequences here.       *)
(***************************************************************************)
MaxMemorySize == 2
MaxBatchSize == 2
MaxTransitions == 3
MaxObs == 2

\* what remember is called with: state, action, reward, new state, done
Transitions ==
    [state : 1..MaxObs, action : {1}, reward : {-1, -2}, state_ : 1..MaxObs,
     done : BOOLEAN]

\* a store that writes the slot after the one the counter points at
StoreIndex_Shifted(counter, size) == (counter + 1) % size

\* index = self.memory_counter % self.memory_size
StoreIndex(counter, size) == counter % size

\* the five arrays of a buffer at slot i, as one transition
SlotAt(i) ==
    [state |-> state_memory[i + 1], action |-> action_memory[i + 1],
     reward |-> reward_memory[i + 1], state_ |-> new_state_memory[i + 1],
     done |-> terminal_memory[i + 1]]

\* max_mem = min(self.memory_counter, self.memory_size)
max_mem == IF memory_counter < memory_size THEN memory_counter ELSE memory_size

\* Agent.__init__: self.memory = ReplayBuffer(max_size, ...), zeroed arrays
ReplayBufferInit(max_size, batch) ==
    /\ rb_pc = "idle"
    /\ rb_pc' = "made"
    /\ rb_call' = "__init__"
    /\ memory_size' = max_size
    /\ memory_counter' = 0
    /\ state_memory' = [i \in 1..max_size |-> 0]
    /\ new_state_memory' = [i \in 1..max_size |-> 0]
    /\ action_memory' = [i \in 1..max_size |-> 0]
    /\ reward_memory' = [i \in 1..max_size |-> 0]
    /\ terminal_memory' = [i \in 1..max_size |-> FALSE]
    /\ batch_size' = batch
    /\ UNCHANGED <<batch_indices, sampled_batch, transitions>>
    /\ UNCHANGED not_rb_vars

\* remember -> store_transition
StoreTransition(tr) ==
    /\ rb_pc \notin {"idle"}
    /\ memory_counter < MaxTransitions
    /\ LET index == StoreIndex(memory_counter, memory_size)
       IN  /\ state_memory' = [state_memory EXCEPT ![index + 1] = tr.state]
           /\ action_memory' = [action_memory EXCEPT ![index + 1] = tr.action]
           /\ reward_memory' = [reward_memory EXCEPT ![index + 1] = tr.reward]
           /\ new_state_memory' = [new_state_memory EXCEPT ![index + 1] = tr.state_]
           /\ terminal_memory' = [terminal_memory EXCEPT ![index + 1] = tr.done]
    /\ memory_counter' = memory_counter + 1
    /\ transitions' = Append(transitions, tr)
    /\ rb_pc' = "stored"
    /\ rb_call' = "store_transition"
    /\ UNCHANGED <<memory_size, batch_size, batch_indices, sampled_batch>>
    /\ UNCHANGED not_rb_vars

\* sample_buffer(batch_size): np.random.choice(max_mem, batch_size) draws with
\* replacement, and raises ValueError on an empty buffer
Sample(caller) ==
    /\ rb_call' = caller
    /\ IF max_mem = 0
       THEN /\ rb_pc' = "raised"
            /\ UNCHANGED <<batch_indices, sampled_batch>>
       ELSE \E drawn \in [1..batch_size -> 0..(max_mem - 1)] :
            /\ batch_indices' = drawn
            /\ sampled_batch' = [j \in 1..batch_size |-> SlotAt(drawn[j])]
            /\ rb_pc' = "sampled"
    /\ UNCHANGED <<memory_size, memory_counter, state_memory, new_state_memory,
                   action_memory, reward_memory, terminal_memory, batch_size,
                   transitions>>
    /\ UNCHANGED not_rb_vars

\* a call of sample_buffer from outside learn
SampleBuffer ==
    /\ rb_pc \notin {"idle"}
    /\ Sample("sample_buffer")

\* learn: return at once while memory_counter < batch_size, else sample
Learn ==
    /\ rb_pc \notin {"idle"}
    /\ IF memory_counter < batch_size
       THEN /\ rb_pc' = "skipped"
            /\ rb_call' = "learn"
            /\ UNCHANGED <<memory_size, memory_counter, state_memory,
                           new_state_memory, action_memory, reward_memory,
                           terminal_memory, batch_size, batch_indices,
                           sampled_batch, transitions>>
            /\ UNCHANGED not_rb_vars
       ELSE Sample("learn")

InitReplay == NoProcess /\ AuxIdle

NextReplay ==
    \/ \E max_size \in 1..MaxMemorySize, batch \in 1..MaxBatchSize :
          ReplayBufferInit(max_size, batch)
    \/ \E tr \in Transitions : StoreTransition(tr)
    \/ SampleBuffer
    \/ Learn

SpecReplay == InitReplay /\ [][NextReplay]_<<vars, aux_vars>>

(***************************************************************************)
(* The episode loop of the LQR soft-actor-critic script.  A = Z^T Z with Z *)
(* scaled to spectral norm 1 has its largest eigenvalue at 1 (up to        *)
(* rounding) and B = ones: the observation is modelled by its component    *)
(* along that eigenvector, in units of the largest action, so that         *)
(* f(x, u) = A x + B u adds the action to it.  The scores and the model    *)
(* checkpoints do not feed back into the loop and are left out.            *)
(***************************************************************************)
\* num_games is 150 in the code
MaxGames == 3

\* done = np.linalg.norm(observation) >= 1000; the limit in units of an action
NormLimit == 3

\* state_range: the initial observations lie within MaxInitial of the origin
MaxInitial == 2

\* agent.choose_action: max_action * tanh(.), anywhere between the two bounds
LqActions == {-1, 0, 1}

\* f(x, u) = A @ x + B @ u
f(x, u) == x + u

\* done = np.linalg.norm(observation) >= 1000
norm_reached(x) == Abs(x) >= NormLimit

\* num_games = 150 and the for loop's first pass
StartGames(n) ==
    /\ lq_pc = "idle"
    /\ lq_pc' = "for"
    /\ num_games' = n
    /\ game' = 0
    /\ UNCHANGED <<observation, lq_action, lq_done>>
    /\ UNCHANGED not_lq_vars

\* observation = initial_states[:, game]; done = False
GameBegin(x0) ==
    /\ lq_pc = "for"
    /\ game < num_games
    /\ observation' = x0
    /\ lq_done' = FALSE
    /\ lq_pc' = "while"
    /\ UNCHANGED <<num_games, game, lq_action>>
    /\ UNCHANGED not_lq_vars

\* one pass of `while not done`: choose an action, step the dynamics, set
\* done from the norm of the observation the pass started with, remember,
\* learn, and move to the new observation
GameStep(u) ==
    /\ lq_pc = "while"
    /\ ~lq_done
    /\ lq_action' = u
    /\ lq_done' = norm_reached(observation)
    /\ observation' = f(observation, u)
    /\ UNCHANGED <<lq_pc, num_games, game>>
    /\ UNCHANGED not_lq_vars

\* the while loop is left: the score is recorded and the next game starts
GameEnd ==
    /\ lq_pc = "while"
    /\ lq_done
    /\ game' = game + 1
    /\ lq_pc' = "for"
    /\ UNCHANGED <<num_games, observation, lq_action, lq_done>>
    /\ UNCHANGED not_lq_vars

\* after the last game: plot_learning_curve
Plot ==
    /\ lq_pc = "for"
    /\ game = num_games
    /\ lq_pc' = "plotted"
    /\ UNCHANGED <<num_games, game, observation, lq_action, lq_done>>
    /\ UNCHANGED not_lq_vars

InitGames == NoProcess /\ AuxIdle

NextGames ==
    \/ \E n \in 1..MaxGames : StartGames(n)
    \/ \E x0 \in (-MaxInitial)..MaxInitial : GameBegin(x0)
    \/ \E u \in LqActions : GameStep(u)
    \/ GameEnd
    \/ Plot

\* the script runs on: it always takes its next statement
SpecGames ==
    /\ InitGames
    /\ [][NextGames]_<<vars, aux_vars>>
    /\ WF_<<vars, aux_vars>>(NextGames)

(***************************************************************************)
(* Properties.                                                             *)
(***************************************************************************)
\* the step is a call of __init__
ConstructStep == runs' # runs

\* a policy object exists
ObjectPcs == TrainPcs \cup {"ready", "done", "raised"}

Uninitialized == value_function_weights.src = "zeros"

Fitted == value_function_weights.src = "lstsq"

\* C1: the critic starts Uninitialized, with zero weights, at a fresh
\* construction; a completed update_value_function_weights leaves it Fitted; only
\* that update takes it from Uninitialized to Fitted; and once Fitted it stays
\* Fitted through every step of train: only a construction ends that.
C1_CriticStateMachine ==
    [][ /\ (ConstructStep /\ ~load_model' /\ pc' = "ready")
            => /\ Uninitialized'
               /\ \A i \in 1..Len(value_function_weights'.w) :
                      IsZero(value_function_weights'.w[i])
               /\ Len(value_function_weights'.w) = dynamics_model'.phi_dim
        /\ (pc = "refit" /\ pc' = "chkpt") => Fitted'
        /\ (Uninitialized /\ Fitted') => (pc = "refit" /\ pc' = "chkpt")
        /\ (Fitted /\ ~ConstructStep /\ pc' \in ObjectPcs) => Fitted'
      ]_vars

\* C1 witness: a Fitted critic has been refitted again, in a second episode
C1_Witness == pc = "chkpt" /\ episode_num = 1 /\ Fitted

\* the places of train from a completed refit to the next gradient step: the
\* policy and the batch are still those the refit read
RefitInputsHeld ==
    \/ pc \in {"chkpt"} \cup SavePcs
    \/ pc \in {"episode", "step", "backprop"} /\ episode_num >= 1

\* C2: the weights a refit stores are a function of the batch, the policy, the
\* catalog, the cost and the discount alone: whatever the weights were before,
\* the stored weights are the Bellman least-squares solution for these inputs.
C2_RefitReplacesWeights ==
    RefitInputsHeld =>
        value_function_weights =
            Weights("lstsq", <<dynamics_model.phi_dim, 1>>,
                    BellmanSolution(policy_model, dynamics_model, all_actions,
                                    x_batch_indices))

\* C2 witness: a second refit has replaced non-zero weights of a first one
C2_Witness ==
    /\ pc = "chkpt"
    /\ episode_num = 1
    /\ \E i \in 1..Len(value_function_weights.w) : ~IsZero(value_function_weights.w[i])

\* C3: no step of train changes the Koopman tensor model (operator tensor,
\* snapshot states X, features Phi_X) of the policy object.
C3_ModelReadOnly ==
    [][(pc \in TrainPcs \cup {"ready"} /\ pc' \in ObjectPcs)
          => dynamics_model' = dynamics_model]_vars

\* C3 witness: a train over two episodes, with a checkpoint, has returned
C3_Witness ==
    /\ pc = "done"
    /\ optimizer_steps = 2
    /\ files.weights.st = "complete"
    /\ dynamics_model = LinearModel

\* C4: update_value_function_weights changes the value weights (and the batch it
\* drew) and nothing else: the policy parameters, their gradients, the optimizer
\* state, the object's other fields and the files are as before.
C4_RefitChangesOnlyWeights ==
    [][(pc = "refit" /\ pc' \in {"chkpt", "raised"})
          => UNCHANGED <<policy_model, policy_grad, optimizer_steps, obj_vars, files>>
      ]_vars

\* C4 witness: a refit has run on a policy that holds gradients
C4_Witness ==
    /\ pc = "chkpt"
    /\ policy_grad = "finite"
    /\ optimizer_steps = 2
    /\ Fitted

\* C5: evaluating w^T phi(state) is a pure read: a pass of the step loop leaves
\* the value weights and the policy parameters as they were, and the value of a
\* state evaluated twice with no refit in between (as V_x_prime of one pass and as
\* V_x of the next) is the same both times.
C5_ValueIsPureRead ==
    [][(pc = "step" /\ pc' \in {"step", "backprop"})
          => /\ value_function_weights' = value_function_weights
             /\ policy_model' = policy_model
             /\ (variant = "final" /\ step_num >= 1)
                   => V_xs_per_episode'[step_num + 1] = V_x_primes_per_episode[step_num]
      ]_vars

\* C5 witness: the same state was evaluated twice to the same non-zero value
C5_Witness ==
    /\ variant = "final"
    /\ pc = "backprop"
    /\ step_num = 2
    /\ ~V_xs_per_episode[2].nan
    /\ V_xs_per_episode[2].n # 0
    /\ V_xs_per_episode[2] = V_x_primes_per_episode[1]

\* C6: a construction with load_model=True that succeeds holds a policy and value
\* weights written by the same completed checkpoint.
C6_CheckpointNeverHalfWritten ==
    (pc = "ready" /\ load_model) => files.policy.stamp = files.weights.stamp

\* C7: a failed save of a checkpoint never ends train.
C7_FailedSaveDoesNotAbort == error = "OSError" => pc # "raised"

\* C8: a construction with load_model=True while policy.pt or the value weights
\* file is missing or unreadable raises to the caller, and no step of train runs
\* on what it left behind.
C8_LoadFailsOnMissingArtifact ==
    [][ /\ (ConstructStep /\ load_model'
              /\ ~(Loadable(files.policy) /\ Loadable(files.weights)))
            => (pc' = "ctor_raised" /\ error' = "LoadError")
        /\ (pc = "ctor_raised" /\ ~ConstructStep) => pc' = "ctor_raised"
      ]_vars

\* C8 witness: policy.pt was complete, the value weights file was not, and the
\* constructor raised
C8_Witness ==
    /\ pc = "ctor_raised"
    /\ files.policy.st = "complete"
    /\ files.weights.st # "complete"

\* C9: NaN never reaches the stored value weights, nor a checkpoint file.
C9_NaNNeverStored ==
    /\ ~AnyNaN(value_function_weights.w)
    /\ files.weights.st = "complete" => ~AnyNaN(files.weights.data.w)
    /\ files.policy.st = "complete" => ~files.policy.data.nan

\* C10: no policy whose dimensions disagree with its model is constructed and
\* then fails with a dimension error in train.
C10_MismatchRejectedAtConstruction == ~(pc = "raised" /\ error = "DimError")

\* C11: every one-step discount is gamma ** dt.  The refit and the advantage of
\* the discrete classes use discount_factor = gamma ** dt; this is the part on
\* the soft-actor-critic Q target: the value of the next step is multiplied by
\* args.gamma ** dt, dt the environment's timestep.
C11_DiscountIsGammaPowDt ==
    q_pc = "target" =>
        q_target_values =
            Mul(Mul(Int2Num(1 - dones), Pow(args_gamma, env_dt)), vf_next)

\* the one-state, one-action system with phi = 1 and K = 1, its one action
\* taken with probability 1: the reward of every step is -cost(0, 1)
TrivialSystem ==
    /\ dynamics_model = TrivialModel
    /\ all_actions = <<1>>
    /\ policy_forward(policy_model, St(0)) = <<One>>

\* C12: in the one-state, one-action system with reward r and discount d < 1,
\* the weight a refit stores satisfies (1 - d) * w = r, that is w = r / (1 - d),
\* and so does the weight every further refit stores.
C12_TrivialFixedPoint ==
    (TrivialSystem /\ Fitted /\ ~load_model /\ pc \in ObjectPcs) =>
        LET r == Neg(cost(St(0), 1))
            w == value_function_weights.w
        IN  /\ Len(w) = 1
            /\ Mul(Sub(One, discount_factor), w[1]) = r
            /\ w[1] = Div(r, Sub(One, discount_factor))

\* C12 witness: a refit of the trivial system has stored its weight, from a
\* batch of both snapshot columns
C12_Witness ==
    /\ TrivialSystem
    /\ pc = "ready"
    /\ Fitted
    /\ Len(x_batch_indices) = 2
    /\ ~IsZero(value_function_weights.w[1])

\* C13: the distribution get_action has sampled from has one probability per
\* action of the catalog, each non-negative, and the probabilities sum to 1.
C13_DistributionNormalised ==
    ga_pc = "returned" =>
        /\ Len(action_probabilities) = Len(all_actions)
        /\ \A u \in 1..Len(action_probabilities) :
              ~action_probabilities[u].nan /\ action_probabilities[u].n >= 0
        /\ SumSeq(action_probabilities) = One

\* C13 witness: a call drew two samples from a distribution that is not uniform
C13_Witness ==
    /\ ga_pc = "returned"
    /\ num_samples = 2
    /\ action_probabilities[1] # action_probabilities[2]

\* a policy with one output per action of the catalog and finite parameters,
\* asked about a state of the environment
WellFormedCall ==
    /\ ga_pc # "idle"
    /\ ~policy_model.nan
    /\ policy_model.n_out = Len(all_actions)
    /\ ~ga_x.nan

\* C14: get_action(x, num_samples = k) returns k actions and k log-probabilities,
\* the i-th action the catalog column at the i-th sampled index and the i-th
\* log-probability the log of the policy's probability of that index; every
\* returned action is in all_actions.
C14_GetActionReturnsPairs ==
    WellFormedCall =>
        /\ ga_pc = "returned"
        /\ Len(actions) = num_samples
        /\ Len(log_probabilities) = num_samples
        /\ \A i \in 1..num_samples :
              /\ action_indices[i] \in 1..Len(all_actions)
              /\ actions[i] = all_actions[action_indices[i]]
              /\ log_probabilities[i] =
                    Log(policy_forward(policy_model, ga_x)[action_indices[i]])

\* C15: in every continuous-action policy the log subtracted from the Gaussian
\* log-density of a sample is log(scale * (1 - tanh(u)^2) + eps), scale the
\* half-range of the action component, and its argument is positive.
C15_SquashCorrection ==
    ca_pc = "sampled" =>
        \A i \in 1..Len(tanh_u) :
            LET scale == Rat(action_maximums[i] - action_minimums[i], 2)
            IN  /\ log_arg[i] =
                      Add(Mul(scale, Sub(One, Mul(tanh_u[i], tanh_u[i]))),
                          reparameterization_noise)
                /\ ~log_arg[i].nan /\ log_arg[i].n > 0

\* C16: every component of a returned action lies within the bounds of that
\* component.
C16_ActionWithinBounds ==
    ca_pc = "sampled" =>
        \A i \in 1..Len(ca_action) :
            /\ Leq(Int2Num(action_minimums[i]), ca_action[i])
            /\ Leq(ca_action[i], Int2Num(action_maximums[i]))

\* the event most recently stored in slot j (slots count from 1): the last
\* store whose number is j modulo the capacity
LatestInSlot(j) ==
    LET at == {i \in 1..Len(stored) : (i - 1) % capacity = j - 1}
    IN  stored[CHOOSE i \in at : \A k \in at : k <= i]

\* C17: Memory is a bounded ring buffer.  With n stores since the last forget,
\* len(data) = min(n, capacity) <= capacity, pointer = n mod capacity, and data
\* holds the most recent min(n, capacity) events: slot j the latest event stored
\* there, a store on a full buffer having overwritten the oldest.
C17_MemoryRingBuffer ==
    mem_pc = "made" =>
        LET n == Len(stored)
        IN  /\ Len(data) <= capacity
            /\ Len(data) = IF n < capacity THEN n ELSE capacity
            /\ pointer = n % capacity
            /\ \A j \in 1..Len(data) : data[j] = LatestInSlot(j)
            /\ \A i \in 1..n :
                  i > n - capacity => data[((i - 1) % capacity) + 1] = stored[i]

\* C17 witness: a full buffer of capacity 2 has overwritten its oldest event
\* with a different one
C17_Witness ==
    /\ mem_pc = "made"
    /\ capacity = 2
    /\ Len(stored) = 3
    /\ stored[1] # stored[3]
    /\ data = <<stored[3], stored[2]>>

\* the places of train after the episode's refit: the checkpoint test and the
\* saves
AfterRefit == {"chkpt"} \cup SavePcs

BeforeBackprop == {"episode", "step", "backprop"}

\* C19: train performs exactly one optimizer step and exactly one critic refit
\* per episode.  With k completed episodes (episode_num = k) the optimizer has
\* stepped k times, k + 1 times once the running episode's step is taken; the
\* value weights are assigned by the refit alone, once between the gradient step
\* of an episode and the end of that episode, which is reached only through that
\* refit; and a pass of the per-step loop changes neither the policy, its
\* optimizer nor the value weights.
C19_OneStepOneRefitPerEpisode ==
    /\ [](pc \in BeforeBackprop => optimizer_steps = episode_num)
    /\ [](pc \in {"refit"} \cup AfterRefit => optimizer_steps = episode_num + 1)
    /\ [][ /\ (pc = "step" /\ pc' \in ObjectPcs)
               => UNCHANGED <<policy_model, policy_grad, optimizer_steps,
                              value_function_weights>>
           /\ (value_function_weights' # value_function_weights
                 /\ pc \in TrainPcs /\ pc' \in TrainPcs)
               => /\ pc = "refit" /\ pc' = "chkpt"
                  /\ episode_num' = episode_num
           /\ (pc = "refit" /\ pc' \in TrainPcs)
               => /\ pc' = "chkpt"
                  /\ value_function_weights' =
                        RefitWeights(value_function_weights, policy_model,
                                     dynamics_model, all_actions, x_batch_indices')
           /\ (pc' \in AfterRefit /\ pc \notin AfterRefit) => pc = "refit"
           /\ (pc \in AfterRefit /\ pc' \in TrainPcs \ AfterRefit)
               => /\ pc' = "episode"
                  /\ episode_num' = episode_num + 1
           /\ (episode_num' # episode_num /\ pc \in TrainPcs /\ pc' \in TrainPcs)
               => /\ pc \in AfterRefit
                  /\ episode_num' = episode_num + 1
         ]_vars

\* C19 witness: two episodes are complete, with two optimizer steps taken and
\* the weights of the second refit in place
C19_Witness ==
    /\ pc = "episode"
    /\ episode_num = 2
    /\ optimizer_steps = 2
    /\ Fitted

\* C20: train writes a checkpoint at the end of an episode exactly when the
\* 1-based number of completed episodes (episode_num + 1) is a multiple of the
\* cadence, and every checkpoint writes both the policy and the value weights
\* as they stand after that episode's gradient step and refit: when train
\* leaves the saves, both files are complete, of this episode, and hold the
\* object's policy and weights.
C20_CheckpointOnCadence ==
    [][ /\ (pc = "chkpt" /\ pc' \in TrainPcs)
            => (pc' = "save_policy" <=> (episode_num + 1) % how_often_to_chkpt = 0)
        /\ (pc \in SavePcs /\ pc' \notin SavePcs)
            => /\ files'.policy =
                     CompleteFile(policy_model, <<runs, episode_num + 1>>)
               /\ files'.weights =
                     CompleteFile(value_function_weights, <<runs, episode_num + 1>>)
               /\ optimizer_steps = episode_num + 1
               /\ Fitted
      ]_vars

\* C21: every completed refit has drawn exactly w_hat_batch_size column
\* indices, all distinct and all columns of the snapshot data (1..N here, [0, N)
\* in the code), and took the state column and the feature column at the same
\* index: x_batch[j] and phi_x_batch[j] are column b[j] of X and of Phi_X.
C21_BatchIsDistinctColumns ==
    [][(pc = "refit" /\ pc' = "chkpt")
          => LET b == x_batch_indices'
                 N == Len(dynamics_model.X)
             IN  /\ Len(b) = w_hat_batch_size
                 /\ \A j \in 1..Len(b) : b[j] \in 1..N
                 /\ \A i, j \in 1..Len(b) : i # j => b[i] # b[j]
                 /\ \A j \in 1..Len(b) :
                       /\ x_batch(dynamics_model, b)[j] = dynamics_model.X[b[j]]
                       /\ phi_x_batch(dynamics_model, b)[j] = dynamics_model.Phi_X[b[j]]
      ]_vars

\* C21 witness: a refit has drawn both columns of a two-column dataset, the
\* second one first
C21_Witness ==
    /\ pc = "chkpt"
    /\ w_hat_batch_size = 2
    /\ x_batch_indices = <<2, 1>>
    /\ dynamics_model = LinearModel

\* C22: in a refit the expected next-feature vector of each sampled state x_w
\* is the probability-weighted sum over the whole catalog,
\* E[p, w] = sum over every catalog action u of pi(u | x_w) * (K(u) phi(x_w))[p],
\* with one operator per catalog action from K_(all_actions), and the refit does
\* not step the environment.
C22_ExpectedNextFeature ==
    [][(pc = "refit" /\ pc' = "chkpt")
          => LET b == x_batch_indices'
                 E == expectation_term_1(policy_model, dynamics_model, all_actions, b)
                 K == K_(dynamics_model, all_actions)
                 x(w) == St(dynamics_model.X[b[w]])
             IN  /\ Len(K) = Len(all_actions)
                 /\ \A w \in 1..Len(b) : \A p \in 1..dynamics_model.phi_dim :
                       E[w][p] =
                          SumSeq([u \in 1..Len(all_actions) |->
                                     Mul(policy_forward(policy_model, x(w))[u],
                                         MatVec(K[u], phi(dynamics_model, x(w)))[p])])
                 /\ state' = state
      ]_vars

\* C22 witness: a refit has run on the two-action system under a policy that
\* weighs the two actions differently
C22_Witness ==
    /\ pc = "chkpt"
    /\ dynamics_model = LinearModel
    /\ Len(x_batch_indices) = 2
    /\ ~policy_model.nan
    /\ policy_forward(policy_model, St(1)) = <<Rat(1, 3), Rat(2, 3)>>

\* the last global_step whose updates have run
UpdatedThrough == IF tl_pc = "raised" THEN global_step ELSE global_step - 1

\* the steps up to g on which training is active
TrainingSteps(g) == {t \in 0..g : t > learning_starts}

\* the actor's gradient steps up to step g when it takes policy_frequency of
\* them on the training steps that are multiples of policy_frequency
ActorStepsThrough(g) ==
    policy_frequency * Cardinality({t \in TrainingSteps(g) : t % policy_frequency = 0})

\* C23: once training is active (global_step > learning_starts) the Q networks
\* take one gradient step on every step; the actor is updated only on steps
\* with global_step % policy_frequency = 0 and then takes policy_frequency
\* gradient steps, so that it takes policy_frequency steps over any
\* policy_frequency consecutive training steps; no network is updated while
\* global_step <= learning_starts.
C23_DelayedActorUpdates ==
    tl_pc # "idle" =>
        /\ q_optimizer_steps = Cardinality(TrainingSteps(UpdatedThrough))
        /\ actor_optimizer_steps = ActorStepsThrough(UpdatedThrough)
        /\ (UpdatedThrough <= learning_starts
               => q_optimizer_steps = 0 /\ actor_optimizer_steps = 0)
        /\ \A t \in TrainingSteps(UpdatedThrough) :
              (t - policy_frequency > learning_starts)
                 => ActorStepsThrough(t) - ActorStepsThrough(t - policy_frequency)
                       = policy_frequency

\* C23 witness: training has been active for several steps under a delayed
\* actor, which has been updated more than once
C23_Witness ==
    /\ tl_pc = "loop"
    /\ policy_frequency = 3
    /\ global_step > learning_starts + 7
    /\ actor_optimizer_steps = 6
    /\ q_optimizer_steps = 8

\* C24: in the Lorenz and DoubleWell environments, after reset the k-th call
\* of step returns terminated = TRUE if and only if k >= max_episode_steps;
\* step_count equals the number of step calls since the last reset and the
\* recorded state history has length step_count + 1.
C24_StepCountAndTermination ==
    env_pc = "reset" =>
        /\ step_count = step_calls
        /\ Len(states) = step_count + 1
        /\ step_calls >= 1 =>
              /\ step_result = "returned"
              /\ terminated <=> step_calls >= max_episode_steps

\* C29: in DoubleWell every call of f made by step reads the noise at an index
\* inside the buffer drawn at the last reset, 0 <= step_count <
\* 10 * max_episode_steps; no sequence of reset and step calls reaches a step
\* that reads past the buffer, or before a reset has drawn it.
C29_NoiseIndexInsideBuffer ==
    env_class = "DoubleWell" =>
        /\ env_pc = "made" => noise_index = -1
        /\ noise_index # -1 =>
              /\ 0 <= noise_index
              /\ noise_index < BufferFactor * max_episode_steps
              /\ noise_index < random_draws
        /\ env_error # "IndexError"

\* C25: update_network_parameters(tau) is a soft (Polyak) update of the whole
\* target value network: for every parameter name the target parameter after
\* the call is tau * value parameter + (1 - tau) * target parameter before the
\* call; with tau = 1 the target equals the value network.
C25_PolyakUpdate ==
    tv_pc \in {"made", "updated"} =>
        /\ \A i \in 1..Len(value_params) :
              target_value_params[i] =
                 Add(Mul(tau, value_params[i]),
                     Mul(Sub(One, tau), target_before[i]))
        /\ tau = One => target_value_params = value_params

C27_OversizedBatchFails ==
    [][(pc = "refit" /\ w_hat_batch_size > Len(dynamics_model.X) /\ pc' \in ObjectPcs)
          => /\ pc' = "raised"
             /\ error' = "ValueError"
             /\ UNCHANGED <<value_function_weights, policy_model, policy_grad,
                            optimizer_steps, x_batch_indices>>
      ]_vars

\* C27 witness: the first refit of a policy asked for three of two columns has
\* raised, and the weights are still the zeros of the construction
C27_Witness ==
    /\ pc = "raised"
    /\ error = "ValueError"
    /\ w_hat_batch_size = 3
    /\ Len(dynamics_model.X) = 2
    /\ Uninitialized
    /\ optimizer_steps = 1

\* the number of the last store that wrote slot i (the n-th store writes slot
\* (n - 1) mod memory_size)
LastStoreAt(i) ==
    CHOOSE n \in 1..memory_counter :
        /\ (n - 1) % memory_size = i
        /\ \A k \in 1..memory_counter : (k - 1) % memory_size = i => k <= n

\* C28: ReplayBuffer only ever samples transitions that were stored: the n-th
\* store writes slot (n - 1) mod memory_size, with the five arrays of a slot
\* holding the fields of one stored transition; sample_buffer draws indices in
\* [0, min(memory_counter, memory_size)) and returns what those slots hold; and
\* Agent.learn does nothing while memory_counter < batch_size.
C28_ReplayBufferSamplesStored ==
    /\ [](rb_pc # "idle" =>
            /\ memory_counter = Len(transitions)
            /\ \A i \in 0..(max_mem - 1) : SlotAt(i) = transitions[LastStoreAt(i)]
            /\ \A j \in 1..Len(batch_indices) :
                  /\ batch_indices[j] \in 0..(max_mem - 1)
                  /\ \E n \in 1..memory_counter : sampled_batch[j] = transitions[n])
    /\ [][ /\ rb_pc' = "sampled"
               => \A j \in 1..Len(batch_indices') :
                     sampled_batch'[j] = transitions[LastStoreAt(batch_indices'[j])]
           /\ (rb_call' = "learn" /\ memory_counter < batch_size)
               => /\ rb_pc' = "skipped"
                  /\ UNCHANGED <<memory_size, memory_counter, state_memory,
                                 new_state_memory, action_memory, reward_memory,
                                 terminal_memory, batch_indices, sampled_batch>>
           /\ (rb_call' = "learn" /\ rb_pc' = "sampled") => memory_counter >= batch_size
         ]_<<vars, aux_vars>>

\* C28 witness: a buffer of two slots has wrapped around (three stores) and learn
\* has sampled both slots, the overwritten one among them
C28_Witness ==
    /\ rb_pc = "sampled"
    /\ rb_call = "learn"
    /\ memory_size = 2
    /\ memory_counter = 3
    /\ batch_indices = <<0, 1>>
    /\ sampled_batch[1] = transitions[3]
    /\ transitions[3] # transitions[1]

\* C30: every game of the LQR soft-actor-critic script terminates: the inner
\* `while not done` loop ends for each of the num_games episodes, so the script
\* reaches its final plot.
C30_EveryGameTerminates == <>(lq_pc = "plotted")

====
